---- MODULE Spec2Model ----
(***************************************************************************)
(* A model of traintools.py: time conversion, the capacity formula, the    *)
(* per-minute occupancy table, the per-train grouping, the timetable graph *)
(* with its stationary edges, the first/last stop queries and the shared   *)
(* colour rotation of Train.plot.                                          *)
(*                                                                         *)
(* An optional value (a result not computed yet) is a sequence of length   *)
(* 0 or 1.  Every operation has its own specification: the variables an    *)
(* operation does not touch keep their initial value.                      *)
(***************************************************************************)
EXTENDS Integers, Sequences, FiniteSets

VARIABLES
    time,          \* argument of to_minutes_past_midnight
    minutes,       \* <<to_minutes_past_midnight(time)>> once computed
    regular,       \* <<to_regular_time(minutes)>> once computed
    row,           \* argument row of minimum_number_of_trains
    train_type,    \* argument (first class capacity, second class capacity)
    min_trains,    \* <<minimum_number_of_trains(row, train_type)>> once computed
    schedule,      \* the schedule DataFrame handed to the last operation: a sequence of rows
    table,         \* <<df>> returned by minimum_number_of_trains_at_time_t
    trains,        \* <<dict>> returned by create_trains_dict
    G,             \* <<graph>> returned by graph_from_schedule
    travel,        \* the graph as from_pandas_edgelist left it, before connect_stationary_nodes
    stationary,    \* the add_edge calls of connect_stationary_nodes, in call order
    starting,      \* <<stops>> yielded by the last find_staring_trainstops(G)
    ending,        \* <<stops>> returned by the last find_ending_trainstops(G)
    color_cycle,   \* position of the module level itertools.cycle(colors)
    lines,         \* every line drawn by Train.plot, in call order
    figures        \* number of visualize() invocations so far

vars ==
    <<time, minutes, regular, row, train_type, min_trains, schedule, table, trains,
      G, travel, stationary, starting, ending, color_cycle, lines, figures>>

\* ---------------------------------------------------------------- bounds

MaxClock ==
    2359
MaxDemand ==
    4
MaxCap ==
    3

\* ------------------------------------------------------- generic helpers

RECURSIVE SeqsUpTo(_, _)
\* all sequences over S of length at most n
SeqsUpTo(S, n) ==
    IF n = 0 THEN {<<>>}
    ELSE LET shorter == SeqsUpTo(S, n - 1)
         IN  shorter \cup {Append(s, x) : s \in {t \in shorter : Len(t) = n - 1}, x \in S}

RECURSIVE SumOver(_, _)
\* sum of f[i] for i in the finite set I
SumOver(f, I) ==
    IF I = {} THEN 0
    ELSE LET i == CHOOSE j \in I : TRUE
         IN  f[i] + SumOver(f, I \ {i})

NoRow ==
    [train |-> 0, first_class |-> 0, second_class |-> 0, start |-> 0, end |-> 0,
     departure_time |-> 0, arrival_time |-> 0]

MkRow(tr, fc, sc, s, e, d, a) ==
    [train |-> tr, first_class |-> fc, second_class |-> sc, start |-> s, end |-> e,
     departure_time |-> d, arrival_time |-> a]

\* The state before any operation has run.
Idle ==
    /\ time = 0
    /\ minutes = <<>>
    /\ regular = <<>>
    /\ row = NoRow
    /\ train_type = <<1, 1>>
    /\ min_trains = <<>>
    /\ schedule = <<>>
    /\ table = <<>>
    /\ trains = <<>>
    /\ G = <<>>
    /\ travel = <<>>
    /\ stationary = <<>>
    /\ starting = <<>>
    /\ ending = <<>>
    /\ color_cycle = 0
    /\ lines = <<>>
    /\ figures = 0

\* --------------------------------------------------------- time conversion

to_minutes_past_midnight(t) ==
    LET hours == t \div 100
        mins  == t % 100
    IN  60 * hours + mins

to_regular_time_swapped(t) ==
    LET hours == t \div 60
        mins  == t % 60
    IN  hours * 60 + mins

to_regular_time(t) ==
    LET hours == t \div 60
        mins  == t % 60
    IN  hours * 100 + mins

ToMinutesPastMidnight ==
    /\ minutes = <<>>
    /\ \E t \in 0..MaxClock :
          /\ time' = t
          /\ minutes' = <<to_minutes_past_midnight(t)>>
    /\ UNCHANGED <<regular, row, train_type, min_trains, schedule, table, trains,
                   G, travel, stationary, starting, ending, color_cycle, lines, figures>>

ToRegularTime ==
    /\ minutes # <<>>
    /\ regular = <<>>
    /\ regular' = <<to_regular_time(minutes[1])>>
    /\ UNCHANGED <<time, minutes, row, train_type, min_trains, schedule, table, trains,
                   G, travel, stationary, starting, ending, color_cycle, lines, figures>>

NextTime ==
    \/ ToMinutesPastMidnight
    \/ ToRegularTime

SpecTime ==
    Idle /\ [][NextTime]_vars

\* C3: for every clock value t in [0, MaxClock] whose minute part is at most 59,
\* to_regular_time(to_minutes_past_midnight(t)) = t; 930 maps to 570 and 570 back to 930.
RoundTrip ==
    /\ (minutes # <<>> /\ time = 930) => minutes[1] = 570
    /\ (regular # <<>> /\ minutes[1] = 570) => regular[1] = 930
    /\ (regular # <<>> /\ time % 100 <= 59) => regular[1] = time

RoundTripWitness ==
    /\ regular # <<>>
    /\ time = 2359
    /\ minutes = <<1439>>
    /\ regular = <<2359>>

\* ------------------------------------------------------ capacity formula

\* max(a, b) of two fractions <<numerator, denominator>> with positive denominators;
\* Python's max keeps its first argument unless the second is strictly larger.
MaxFrac(a, b) ==
    IF b[1] * a[2] > a[1] * b[2] THEN b ELSE a

\* math.ceil of a fraction with a non-negative numerator and a positive denominator.
\* The code divides in float64 and takes the ceiling of the float; for integers below
\* 2^53, as here, that is the ceiling of the exact quotient.
Ceil(q) ==
    (q[1] + q[2] - 1) \div q[2]

minimum_number_of_trains_first_only(r, tt) ==
    Ceil(<<r.first_class, tt[1]>>)

minimum_number_of_trains(r, tt) ==
    LET min_first_class  == <<r.first_class, tt[1]>>
        min_second_class == <<r.second_class, tt[2]>>
    IN  Ceil(MaxFrac(min_first_class, min_second_class))

Demands ==
    (0..MaxDemand) \cup {40, 150}

Caps ==
    (1..MaxCap) \cup {50, 100}

MinimumNumberOfTrains ==
    /\ min_trains = <<>>
    /\ \E fc \in Demands, sc \in Demands, c1 \in Caps, c2 \in Caps :
          /\ row' = MkRow(1, fc, sc, 1, 2, 0, 1)
          /\ train_type' = <<c1, c2>>
          /\ min_trains' = <<minimum_number_of_trains(row', train_type')>>
    /\ UNCHANGED <<time, minutes, regular, schedule, table, trains,
                   G, travel, stationary, starting, ending, color_cycle, lines, figures>>

NextMin ==
    MinimumNumberOfTrains

SpecMin ==
    Idle /\ [][NextMin]_vars

\* C1: for non-negative demands and positive capacities minimum_number_of_trains returns
\* the smallest n >= 0 with n*firstCap >= first_class and n*secondCap >= second_class;
\* 0 for demand (0, 0) and 2 for demand (150, 40) with capacity (100, 50).
SmallestSufficientCount ==
    min_trains # <<>> =>
        LET n == min_trains[1]
            Enough(k) == /\ k * train_type[1] >= row.first_class
                         /\ k * train_type[2] >= row.second_class
        IN  /\ n >= 0
            /\ Enough(n)
            /\ \A k \in 0..(n - 1) : ~Enough(k)
            /\ (row.first_class = 0 /\ row.second_class = 0) => n = 0
            /\ (row.first_class = 150 /\ row.second_class = 40 /\ train_type = <<100, 50>>)
                  => n = 2

SmallestSufficientCountWitness ==
    /\ min_trains = <<2>>
    /\ row.first_class = 150
    /\ row.second_class = 40
    /\ train_type = <<100, 50>>

\* ------------------------------------------------- per-minute occupancy

MaxRows ==
    2

\* df = pd.DataFrame(np.zeros((60*24+1, 1))): the index labels are 0 .. 60*24
TableIndex ==
    0..(60 * 24)

\* df.loc[start:stop, 'number of trains'] += n with the end label left out
AddToSliceHalfOpen(df, start, stop, n) ==
    [m \in DOMAIN df |-> IF start <= m /\ m < stop THEN df[m] + n ELSE df[m]]

\* df.loc[start:stop, 'number of trains'] += n: a label slice, both ends included
AddToSlice(df, start, stop, n) ==
    [m \in DOMAIN df |-> IF start <= m /\ m <= stop THEN df[m] + n ELSE df[m]]

RECURSIVE AccumulateRows(_, _, _, _)
\* the loop over schedule.iterrows(), from row i on
AccumulateRows(df, sched, tt, i) ==
    IF i > Len(sched) THEN df
    ELSE LET start == sched[i].departure_time
             stop  == sched[i].arrival_time
             n     == minimum_number_of_trains(sched[i], tt)
         IN  AccumulateRows(AddToSlice(df, start, stop, n), sched, tt, i + 1)

minimum_number_of_trains_at_time_t(sched, tt) ==
    AccumulateRows([m \in TableIndex |-> 0], sched, tt, 1)

\* (departure_time, arrival_time) of the legs the occupancy table is tried on
OccLegs ==
    {<<100, 200>>, <<150, 250>>, <<0, 0>>, <<200, 200>>, <<0, 1440>>, <<1440, 1440>>}

\* (first_class, second_class) of those legs
OccDemands ==
    {<<0, 0>>, <<1, 0>>, <<0, 2>>}

OccRows ==
    {MkRow(1, d[1], d[2], 1, 2, l[1], l[2]) : d \in OccDemands, l \in OccLegs}

OccTypes ==
    {<<1, 1>>, <<1, 2>>}

MinimumNumberOfTrainsAtTimeT ==
    /\ table = <<>>
    /\ \E sched \in SeqsUpTo(OccRows, MaxRows), tt \in OccTypes :
          /\ schedule' = sched
          /\ train_type' = tt
          /\ table' = <<minimum_number_of_trains_at_time_t(sched, tt)>>
    /\ UNCHANGED <<time, minutes, regular, row, min_trains, trains,
                   G, travel, stationary, starting, ending, color_cycle, lines, figures>>

NextOcc ==
    MinimumNumberOfTrainsAtTimeT

SpecOcc ==
    Idle /\ [][NextOcc]_vars

RowsValid ==
    \A i \in 1..Len(schedule) :
        /\ 0 <= schedule[i].departure_time
        /\ schedule[i].departure_time <= schedule[i].arrival_time
        /\ schedule[i].arrival_time <= 1440

\* C2: when every row has 0 <= departure_time <= arrival_time <= 1440, the table has
\* exactly 1441 entries (minutes 0..1440) and its entry at minute m is the sum of
\* minimum_number_of_trains over exactly the rows with departure_time <= m <= arrival_time.
OccupancyIsSumOfCoveringRows ==
    (table # <<>> /\ RowsValid) =>
        /\ DOMAIN table[1] = 0..1440
        /\ Cardinality(DOMAIN table[1]) = 1441
        /\ \A m \in 0..1440 :
              LET covering == {i \in 1..Len(schedule) :
                                  /\ schedule[i].departure_time <= m
                                  /\ m <= schedule[i].arrival_time}
                  count == [i \in 1..Len(schedule) |->
                               minimum_number_of_trains(schedule[i], train_type)]
              IN  table[1][m] = SumOver(count, covering)

\* two overlapping legs [100,200] and [150,250] of one unit each: 2 in the overlap,
\* 1 in the rest of either leg, 0 outside
OccupancyWitness ==
    /\ table # <<>>
    /\ Len(schedule) = 2
    /\ schedule[1].departure_time = 100 /\ schedule[1].arrival_time = 200
    /\ schedule[2].departure_time = 150 /\ schedule[2].arrival_time = 250
    /\ table[1][99] = 0 /\ table[1][100] = 1 /\ table[1][149] = 1
    /\ table[1][150] = 2 /\ table[1][200] = 2
    /\ table[1][201] = 1 /\ table[1][250] = 1 /\ table[1][251] = 0

\* ------------------------------------------------------ per-train grouping

NumTrains ==
    2
MaxDictRows ==
    4

\* A dict is the sequence of its items in insertion order.
DictKeys(d) ==
    [j \in 1..Len(d) |-> d[j].key]

DictHas(d, k) ==
    \E j \in 1..Len(d) : d[j].key = k

\* d[k] of a defaultdict(pd.DataFrame): the stored value, or a new empty DataFrame
DictGet(d, k) ==
    IF DictHas(d, k) THEN d[CHOOSE j \in 1..Len(d) : d[j].key = k].value ELSE <<>>

\* d[k] = v: an existing key keeps its place, a new key goes last
DictSet(d, k, v) ==
    IF DictHas(d, k)
    THEN [j \in 1..Len(d) |-> IF d[j].key = k THEN [key |-> k, value |-> v] ELSE d[j]]
    ELSE Append(d, [key |-> k, value |-> v])

\* pd.concat with the operands swapped: the new row goes first
ConcatRowFirst(df, label, r) ==
    <<[index |-> label, row |-> r]>> \o df

\* pd.concat([df, pd.DataFrame(row).T]): the row, under its index label, goes last
ConcatRow(df, label, r) ==
    Append(df, [index |-> label, row |-> r])

RECURSIVE GroupRows(_, _, _)
\* the loop over schedulce.iterrows(), from row i on; row[0] is the train number
GroupRows(d, sched, i) ==
    IF i > Len(sched) THEN d
    ELSE LET k == sched[i].train
         IN  GroupRows(DictSet(d, k, ConcatRow(DictGet(d, k), i - 1, sched[i])), sched, i + 1)

create_trains_dict(sched) ==
    GroupRows(<<>>, sched, 1)

DictRows ==
    {MkRow(tr, fc, 0, 1, 2, 0, 1) : tr \in 1..NumTrains, fc \in {10, 20}}

CreateTrainsDict ==
    /\ trains = <<>>
    /\ \E sched \in SeqsUpTo(DictRows, MaxDictRows) :
          /\ schedule' = sched
          /\ trains' = <<create_trains_dict(sched)>>
    /\ UNCHANGED <<time, minutes, regular, row, train_type, min_trains, table,
                   G, travel, stationary, starting, ending, color_cycle, lines, figures>>

NextDict ==
    CreateTrainsDict

SpecDict ==
    Idle /\ [][NextDict]_vars

\* C4: for a schedule of N rows with K distinct train identifiers create_trains_dict
\* returns exactly K entries, one per identifier; every row is in exactly the entry of
\* its own train; the entries' row counts sum to N; within an entry the rows keep the
\* relative order of the schedule.
TrainsDictPartitionsSchedule ==
    trains # <<>> =>
        LET d == trains[1]
            N == Len(schedule)
            ids == {schedule[i].train : i \in 1..N}
            size == [j \in 1..Len(d) |-> Len(d[j].value)]
        IN  /\ Len(d) = Cardinality(ids)
            /\ {d[j].key : j \in 1..Len(d)} = ids
            /\ \A j1, j2 \in 1..Len(d) : d[j1].key = d[j2].key => j1 = j2
            /\ \A i \in 1..N :
                  \A j \in 1..Len(d) :
                      LET places == {p \in 1..Len(d[j].value) : d[j].value[p].index = i - 1}
                      IN  IF d[j].key = schedule[i].train
                          THEN /\ Cardinality(places) = 1
                               /\ \A p \in places : d[j].value[p].row = schedule[i]
                          ELSE places = {}
            /\ SumOver(size, 1..Len(d)) = N
            /\ \A j \in 1..Len(d) :
                  \A p, q \in 1..Len(d[j].value) :
                      p < q => d[j].value[p].index < d[j].value[q].index

\* trains 2, 1, 2, 1 interleaved: two entries of two rows each, each in schedule order
TrainsDictWitness ==
    /\ trains # <<>>
    /\ Len(schedule) = 4
    /\ schedule[1].train = 2 /\ schedule[2].train = 1
    /\ schedule[3].train = 2 /\ schedule[4].train = 1
    /\ Len(trains[1]) = 2
    /\ trains[1][1].key = 2
    /\ Len(trains[1][1].value) = 2
    /\ trains[1][1].value[1].index = 0 /\ trains[1][1].value[2].index = 2
    /\ trains[1][2].value[1].index = 1 /\ trains[1][2].value[2].index = 3

\* -------------------------------------------------------- timetable graph
\* A stop is <<station, time>>.  A DiGraph is its nodes in insertion order and its
\* edges, at most one per ordered pair of nodes, each with its two attributes.

EmptyGraph ==
    [nodes |-> <<>>, edges |-> {}]

SeqHas(seq, x) ==
    \E j \in 1..Len(seq) : seq[j] = x

AddNode(nodes, n) ==
    IF SeqHas(nodes, n) THEN nodes ELSE Append(nodes, n)

\* G.add_edge(u, v, first_class=fc, second_class=sc): missing end points become nodes,
\* an edge already there keeps its place and has its attributes overwritten
add_edge(g, u, v, fc, sc) ==
    [nodes |-> AddNode(AddNode(g.nodes, u), v),
     edges |-> {e \in g.edges : ~(e.u = u /\ e.v = v)}
                   \cup {[u |-> u, v |-> v, first_class |-> fc, second_class |-> sc]}]

create_network_schedule(df) ==
    [i \in 1..Len(df) |->
        [first_class  |-> df[i].first_class,
         second_class |-> df[i].second_class,
         start        |-> <<df[i].start, df[i].departure_time>>,
         end          |-> <<df[i].end, df[i].arrival_time>>]]

RECURSIVE AddEdgeList(_, _, _)
\* nx.from_pandas_edgelist(..., create_using=nx.DiGraph): one add_edge per row, from row i on
AddEdgeList(g, ns, i) ==
    IF i > Len(ns) THEN g
    ELSE AddEdgeList(add_edge(g, ns[i].start, ns[i].end, ns[i].first_class, ns[i].second_class),
                     ns, i + 1)

from_pandas_edgelist(ns) ==
    AddEdgeList(EmptyGraph, ns, 1)

\* the order of Python tuples: by station, then by time
StopLess(a, b) ==
    \/ a[1] < b[1]
    \/ (a[1] = b[1] /\ a[2] < b[2])

RECURSIVE InsertSorted(_, _)
InsertSorted(sorted, x) ==
    IF sorted = <<>> THEN <<x>>
    ELSE IF StopLess(x, Head(sorted)) THEN <<x>> \o sorted
    ELSE <<Head(sorted)>> \o InsertSorted(Tail(sorted), x)

RECURSIVE SortFrom(_, _, _)
SortFrom(sorted, list, i) ==
    IF i > Len(list) THEN sorted
    ELSE SortFrom(InsertSorted(sorted, list[i]), list, i + 1)

Reversed(list) ==
    [j \in 1..Len(list) |-> list[Len(list) + 1 - j]]

\* list.sort(reverse=True)
SortStopsDescending(list) ==
    Reversed(SortFrom(<<>>, list, 1))

\* list.sort()
SortStops(list) ==
    SortFrom(<<>>, list, 1)

RECURSIVE GroupNodes(_, _, _)
\* for node in G.nodes: nodes_per_station[node[0]].append(node), from node i on
GroupNodes(d, nodes, i) ==
    IF i > Len(nodes) THEN d
    ELSE LET station == nodes[i][1]
         IN  GroupNodes(DictSet(d, station, Append(DictGet(d, station), nodes[i])),
                        nodes, i + 1)

find_all_stops_per_station(g) ==
    LET nodes_per_station == GroupNodes(<<>>, g.nodes, 1)
    IN  [j \in 1..Len(nodes_per_station) |->
            [key   |-> nodes_per_station[j].key,
             value |-> SortStops(nodes_per_station[j].value)]]

\* the target of the edge that leaves stops[index], taken to be the station's last stop
LastStopOf(stops, index) ==
    stops[Len(stops)]

\* nodes_per_station[station][index + 1] (index counted from 1 here)
NextStopOf(stops, index) ==
    stops[index + 1]

RECURSIVE StationaryCalls(_, _)
\* the (stop, next stop) pairs of the two nested loops, from station j on
StationaryCalls(nodes_per_station, j) ==
    IF j > Len(nodes_per_station) THEN <<>>
    ELSE LET stops == nodes_per_station[j].value
         IN  [index \in 1..(Len(stops) - 1) |-> <<stops[index], NextStopOf(stops, index)>>]
                 \o StationaryCalls(nodes_per_station, j + 1)

RECURSIVE AddStationary(_, _, _)
AddStationary(g, calls, i) ==
    IF i > Len(calls) THEN g
    ELSE AddStationary(add_edge(g, calls[i][1], calls[i][2], 0, 0), calls, i + 1)

\* the graph after connect_stationary_nodes(G), and the add_edge calls it made
connect_stationary_nodes(g) ==
    LET calls == StationaryCalls(find_all_stops_per_station(g), 1)
    IN  [graph |-> AddStationary(g, calls, 1), calls |-> calls]

graph_from_schedule(df) ==
    connect_stationary_nodes(from_pandas_edgelist(create_network_schedule(df))).graph

find_staring_trainstops(g) ==
    LET d == find_all_stops_per_station(g)
    IN  [j \in 1..Len(d) |-> d[j].value[1]]

find_ending_trainstops_first(g) ==
    LET d == find_all_stops_per_station(g)
    IN  [j \in 1..Len(d) |-> d[j].value[1]]

find_ending_trainstops(g) ==
    LET d == find_all_stops_per_station(g)
    IN  [j \in 1..Len(d) |-> d[j].value[Len(d[j].value)]]

GraphStations ==
    {1, 2}

\* (departure_time, arrival_time) of the legs the graph is tried on
GraphLegs ==
    {l \in {50, 100, 200} \X {50, 100, 200} : l[1] <= l[2]}

\* (first_class, second_class) of those legs
GraphDemands ==
    {<<1, 2>>, <<3, 0>>}

GraphRows ==
    {MkRow(1, d[1], d[2], s, e, l[1], l[2]) :
        d \in GraphDemands, s \in GraphStations, e \in GraphStations, l \in GraphLegs}

GraphFromSchedule ==
    /\ G = <<>>
    /\ \E df \in SeqsUpTo(GraphRows, MaxRows) :
          LET g == from_pandas_edgelist(create_network_schedule(df))
          IN  /\ schedule' = df
              /\ travel' = <<g>>
              /\ stationary' = connect_stationary_nodes(g).calls
              /\ G' = <<graph_from_schedule(df)>>
    /\ UNCHANGED <<time, minutes, regular, row, train_type, min_trains, table, trains,
                   starting, ending, color_cycle, lines, figures>>

FindStartingTrainstops ==
    /\ G # <<>>
    /\ starting' = <<find_staring_trainstops(G[1])>>
    /\ UNCHANGED <<time, minutes, regular, row, train_type, min_trains, schedule, table,
                   trains, G, travel, stationary, ending, color_cycle, lines, figures>>

FindEndingTrainstops ==
    /\ G # <<>>
    /\ ending' = <<find_ending_trainstops(G[1])>>
    /\ UNCHANGED <<time, minutes, regular, row, train_type, min_trains, schedule, table,
                   trains, G, travel, stationary, starting, color_cycle, lines, figures>>

NextGraph ==
    \/ GraphFromSchedule
    \/ FindStartingTrainstops
    \/ FindEndingTrainstops

SpecGraph ==
    Idle /\ [][NextGraph]_vars

StartStop(r) ==
    <<r.start, r.departure_time>>

EndStop(r) ==
    <<r.end, r.arrival_time>>

NodeSet(g) ==
    {g.nodes[j] : j \in 1..Len(g.nodes)}

StopsAt(g, station) ==
    {n \in NodeSet(g) : n[1] = station}

StationsOf(g) ==
    {n[1] : n \in NodeSet(g)}

\* the edges of the returned graph that run from some row's start stop to its end stop
TravelEdges ==
    {e \in G[1].edges : \E i \in 1..Len(schedule) :
                            e.u = StartStop(schedule[i]) /\ e.v = EndStop(schedule[i])}

\* C5: the graph returned by graph_from_schedule has as many travel edges as the schedule
\* has rows, for any sequence of rows, rows that share their start and end stop included.
TravelEdgeCountEqualsRowCount ==
    G # <<>> => Cardinality(TravelEdges) = Len(schedule)

\* C6: in the returned graph every row's edge from (start, departure_time) to
\* (end, arrival_time) exists and carries that row's first_class and second_class;
\* the stationary edges change no attribute of a travel edge.
TravelEdgesCarryRowAttributes ==
    G # <<>> =>
        /\ \A i \in 1..Len(schedule) :
              \E e \in G[1].edges :
                  /\ e.u = StartStop(schedule[i])
                  /\ e.v = EndStop(schedule[i])
                  /\ e.first_class = schedule[i].first_class
                  /\ e.second_class = schedule[i].second_class
        /\ travel[1].edges \subseteq G[1].edges

\* stop v is the stop that follows stop u in time at u's station
Consecutive(g, u, v) ==
    /\ u[1] = v[1]
    /\ u[2] < v[2]
    /\ ~ \E w \in StopsAt(g, u[1]) : u[2] < w[2] /\ w[2] < v[2]

StationaryPairs ==
    {stationary[j] : j \in 1..Len(stationary)}

\* C7: after connect_stationary_nodes a station with n distinct stops has exactly n-1
\* stationary edges: one with first_class = 0 and second_class = 0 from each stop to the
\* stop with the next larger time at that station, none leaving the last stop, none
\* between stops that are not adjacent in time or that lie at different stations.
StationaryEdgesLinkConsecutiveStops ==
    G # <<>> =>
        LET g == G[1]
        IN  /\ Cardinality(StationaryPairs) = Len(stationary)
            /\ StationaryPairs =
                  {p \in NodeSet(g) \X NodeSet(g) : Consecutive(g, p[1], p[2])}
            /\ \A p \in StationaryPairs :
                  [u |-> p[1], v |-> p[2], first_class |-> 0, second_class |-> 0] \in g.edges
            /\ \A station \in StationsOf(g) :
                  Cardinality({p \in StationaryPairs : p[1][1] = station})
                      = Cardinality(StopsAt(g, station)) - 1
            /\ NodeSet(g) = NodeSet(travel[1])

\* station 1 has the stops 50, 100, 200 and two stationary edges, station 2 has one stop
\* and none
StationaryEdgesWitness ==
    /\ G # <<>>
    /\ StopsAt(G[1], 1) = {<<1, 50>>, <<1, 100>>, <<1, 200>>}
    /\ Cardinality(StopsAt(G[1], 2)) = 1
    /\ StationaryPairs = {<<(<<1, 50>>), (<<1, 100>>)>>, <<(<<1, 100>>), (<<1, 200>>)>>}

\* the stations of g in the order of their first node in g.nodes
RECURSIVE StationOrder(_, _, _)
StationOrder(seen, nodes, i) ==
    IF i > Len(nodes) THEN seen
    ELSE StationOrder(IF SeqHas(seen, nodes[i][1]) THEN seen ELSE Append(seen, nodes[i][1]),
                      nodes, i + 1)

\* C8: find_staring_trainstops yields exactly one stop per station of the graph, the
\* station's stop with the smallest time, and find_ending_trainstops one per station, the
\* stop with the largest time, both in the order of the mapping of
\* find_all_stops_per_station, whose lists are sorted ascending by time; for stops at
\* 50, 100, 200 they give 50 and 200.
FirstAndLastStopPerStation ==
    LET g == G[1]
        order == StationOrder(<<>>, g.nodes, 1)
        d == find_all_stops_per_station(g)
        Extreme(result, IsBeyond(_, _)) ==
            /\ Len(result) = Cardinality(StationsOf(g))
            /\ Len(result) = Len(order)
            /\ \A j \in 1..Len(result) :
                  /\ result[j] \in StopsAt(g, order[j])
                  /\ \A n \in StopsAt(g, order[j]) : ~IsBeyond(n[2], result[j][2])
        Smaller(a, b) == a < b
        Larger(a, b) == a > b
    IN  /\ G # <<>> =>
              /\ DictKeys(d) = order
              /\ \A j \in 1..Len(d) :
                    \A p, q \in 1..Len(d[j].value) :
                        p < q => d[j].value[p][2] < d[j].value[q][2]
        /\ starting # <<>> => Extreme(starting[1], Smaller)
        /\ ending # <<>> => Extreme(ending[1], Larger)

\* station 2 comes first in the graph and has one stop; station 1 has the stops
\* 50, 100, 200
FirstAndLastStopWitness ==
    /\ G # <<>>
    /\ StopsAt(G[1], 1) = {<<1, 50>>, <<1, 100>>, <<1, 200>>}
    /\ starting = << <<(<<2, 50>>), (<<1, 50>>)>> >>
    /\ ending = << <<(<<2, 50>>), (<<1, 200>>)>> >>

RECURSIVE ReachableFrom(_, _)
\* the nodes reached from the node set `from` by one or more edges of the returned graph
ReachableFrom(from, found) ==
    LET next == {e.v : e \in {x \in G[1].edges : x.u \in from}} \ found
    IN  IF next = {} THEN found ELSE ReachableFrom(next, found \cup next)

DepartBeforeArrive ==
    \A i \in 1..Len(schedule) : schedule[i].departure_time < schedule[i].arrival_time

\* C10: when every row has departure_time < arrival_time, every edge of the returned
\* graph, travel or stationary, leads to a stop with a strictly larger time, so the graph
\* has no self-loop and no directed cycle.
EdgesGoForwardInTime ==
    (G # <<>> /\ DepartBeforeArrive) =>
        /\ \A e \in G[1].edges : e.u[2] < e.v[2]
        /\ \A e \in G[1].edges : e.u # e.v
        /\ \A n \in NodeSet(G[1]) : n \notin ReachableFrom({n}, {})

\* a travel edge 1 -> 2 followed by a travel edge 2 -> 1, joined by stationary edges
EdgesGoForwardWitness ==
    /\ G # <<>>
    /\ DepartBeforeArrive
    /\ Len(schedule) = 2
    /\ schedule[1].start = 1 /\ schedule[1].end = 2
    /\ schedule[2].start = 2 /\ schedule[2].end = 1
    /\ Len(stationary) = 2
    /\ Cardinality(G[1].edges) = 4

\* ------------------------------------------------------- colour rotation

MaxPlots ==
    7
MaxFigures ==
    4

colors ==
    <<"b", "r", "k", "g", "m", "c">>

\* next(color_cycle) of a cycle that never moves on
next_color_stuck(pos) ==
    [col |-> colors[pos + 1], pos |-> pos]

\* next(color_cycle) with color_cycle = itertools.cycle(colors) at position pos:
\* the colour drawn and the position after it
next_color(pos) ==
    [col |-> colors[pos + 1], pos |-> (pos + 1) % Len(colors)]

\* Train.plot(): the line of train `key` on the axes of figure `fig`
TrainPlot(state, fig, key) ==
    LET nxt == next_color(state.pos)
    IN  [pos |-> nxt.pos,
         lines |-> Append(state.lines, [figure |-> fig, train |-> key, color |-> nxt.col])]

RECURSIVE PlotAll(_, _, _, _)
\* for key, value in self.trains.items(): Train(key, value, ax).plot(), from item i on
PlotAll(state, fig, keys, i) ==
    IF i > Len(keys) THEN state
    ELSE PlotAll(TrainPlot(state, fig, keys[i]), fig, keys, i + 1)

\* the keys, in insertion order, of the dicts of trains that are visualized
TrainsToVisualize ==
    {<<>>, <<1>>, <<2>>, <<1, 2>>, <<2, 1>>}

Visualize ==
    /\ figures < MaxFigures
    /\ \E keys \in TrainsToVisualize :
          /\ Len(lines) + Len(keys) <= MaxPlots
          /\ LET done == PlotAll([pos |-> color_cycle, lines |-> lines], figures + 1, keys, 1)
             IN  /\ color_cycle' = done.pos
                 /\ lines' = done.lines
          /\ figures' = figures + 1
    /\ UNCHANGED <<time, minutes, regular, row, train_type, min_trains, schedule, table,
                   trains, G, travel, stationary, starting, ending>>

NextPlot ==
    Visualize

SpecPlot ==
    Idle /\ [][NextPlot]_vars

\* C9: across all visualize() invocations of a process the k-th Train.plot call draws in
\* the colour at position (k-1) mod 6 of b, r, k, g, m, c; the rotation advances by one
\* per plotted train and is never reset, so a later visualize() continues where the
\* previous one stopped.
ColourFollowsPlotCount ==
    /\ \A k \in 1..Len(lines) :
          lines[k].color = <<"b", "r", "k", "g", "m", "c">>[((k - 1) % 6) + 1]
    /\ color_cycle = Len(lines) % 6
    /\ \A k \in 2..Len(lines) :
          (lines[k].figure # lines[k - 1].figure /\ lines[k - 1].color = "b")
              => lines[k].color = "r"

\* seven plots over four figures: the seventh is blue again, and the second figure
\* starts at black, not at blue
ColourWitness ==
    /\ Len(lines) = 7
    /\ figures = 4
    /\ lines[7].color = "b"
    /\ lines[3].figure = 2
    /\ lines[3].color = "k"

====
